---- MODULE Spec2Model ----
(***************************************************************************)
(* Condition objects of spanner_orm (condition.py): the bind-then-emit     *)
(* lifecycle of one condition instance and of the extra conditions handed  *)
(* to an IncludesCondition, with the SQL text kept as a token sequence so  *)
(* that its @placeholders can be read back out of it.                      *)
(***************************************************************************)
EXTENDS Integers, Sequences, FiniteSets, TLC

VARIABLES cond, model, relation, extraModel, result

vars == <<cond, model, relation, extraModel, result>>

(* ------------------------------ bounds --------------------------------- *)

\* integers handed to the factories range over -1 .. MaxInt
MaxInt == 1
\* longest list of extra conditions handed to includes()
MaxExtras == 2
\* longest list of orderings handed to order_by()
MaxOrderings == 2

(* --------------------------- Python values ----------------------------- *)

PyNone == [t |-> "NoneType", i |-> 0, s |-> "", items |-> <<>>]
PyInt(n) == [t |-> "int", i |-> n, s |-> "", items |-> <<>>]
PyStr(x) == [t |-> "str", i |-> 0, s |-> x, items |-> <<>>]
PyList(xs) == [t |-> "list", i |-> 0, s |-> "", items |-> xs]

\* isinstance(value, int)
IsInt(v) == v.t = "int"
\* isinstance(value, list)
IsList(v) == v.t = "list"
\* Python truthiness of a value, as used by `if self.offset:`
Truthy(v) ==
  CASE v.t = "NoneType" -> FALSE
    [] v.t = "int" -> v.i # 0
    [] v.t = "str" -> v.s # ""
    [] v.t = "list" -> v.items # <<>>

IntValues == {PyInt(n) : n \in -1..MaxInt}
Scalars == IntValues \cup {PyNone, PyStr("x")}
Values == Scalars \cup {PyList(<<>>), PyList(<<PyInt(1)>>), PyList(<<PyStr("x")>>),
                        PyList(<<PyInt(1), PyNone>>)}

EmptyDict == [k \in {} |-> PyNone]

(* --------------------- the models a condition binds to ----------------- *)

\* self.model = None
NoModel == "None"
Models == {"A", "B"}

Field(type, isNullable) == [field_type |-> type, nullable |-> isNullable]

table(m) == IF m = "A" THEN "db.table_a" ELSE "db.table_b"
column_prefix(m) == IF m = "A" THEN "table_a" ELSE "table_b"
schema(m) ==
  IF m = "A"
  THEN [c \in {"key", "value", "only_a"} |->
          CASE c = "key" -> Field("String", FALSE)
            [] c = "value" -> Field("Integer", TRUE)
            [] c = "only_a" -> Field("Integer", FALSE)]
  ELSE [c \in {"key", "value", "b_value"} |->
          CASE c = "key" -> Field("String", FALSE)
            [] c = "value" -> Field("Integer", FALSE)
            [] c = "b_value" -> Field("Integer", TRUE)]

Columns == {"key", "value", "only_a", "b_value", "missing"}
RelationNames == {"rel_a", "rel_b", "missing_rel"}

\* Field.grpc_type() and Field.grpc_list_type(): the wire type descriptors
grpc_type(f) == [code |-> IF f.field_type = "String" THEN "STRING" ELSE "INT64",
                 array_element |-> "none"]
grpc_list_type(f) == [code |-> "ARRAY",
                      array_element |-> IF f.field_type = "String" THEN "STRING" ELSE "INT64"]
Int64Type == [code |-> "INT64", array_element |-> "none"]
EmptyTypes == [k \in {} |-> Int64Type]

\* variant of FieldValidate: an absent value passes only for a nullable field
FieldValidate_NullableOnly(f, v) ==
  CASE v.t = "NoneType" -> f.nullable
    [] v.t = "int" -> f.field_type = "Integer"
    [] v.t = "str" -> f.field_type = "String"
    [] v.t = "list" -> FALSE

\* Field.validate(value): the logical-type check of the field's validator;
\* TRUE when it returns, FALSE when it raises
FieldValidate(f, v) ==
  CASE v.t = "NoneType" -> TRUE
    [] v.t = "int" -> f.field_type = "Integer"
    [] v.t = "str" -> f.field_type = "String"
    [] v.t = "list" -> FALSE

(* ------------------------------ conditions ----------------------------- *)

ASC == [isOrderType |-> TRUE, name |-> "ASC"]
DESC == [isOrderType |-> TRUE, name |-> "DESC"]
\* the string 'ASC' handed over instead of OrderType.ASC
NotAnOrderType == [isOrderType |-> FALSE, name |-> "ASC"]
OrderTypes == {ASC, DESC, NotAnOrderType}

\* the attributes of a condition instance other than its bind slots
Fields(cls) ==
  [cls |-> cls, column |-> "", value |-> PyNone, destination_model |-> NoModel,
   destination_column |-> "", name |-> "", conditions |-> <<>>,
   limit |-> PyNone, offset |-> PyNone, orderings |-> <<>>]

NoCond == Fields("none")

ColumnsEqualCondition(origin_column, destination_model, destination_column) ==
  [Fields("ColumnsEqualCondition") EXCEPT
     !.column = origin_column,
     !.destination_model = destination_model,
     !.destination_column = destination_column]

\* `conditions or []`: an omitted list is the empty list
IncludesCondition(name, conditions) ==
  [Fields("IncludesCondition") EXCEPT !.name = name, !.conditions = conditions]

\* variant of LimitInitOk: the offset is not checked
LimitInitOk_LimitOnly(limit, offset) == IsInt(limit)

\* TRUE when LimitCondition.__init__ returns, FALSE when it raises SpannerError
LimitInitOk(limit, offset) == IsInt(limit) /\ IsInt(offset)

LimitCondition(limit, offset) ==
  [Fields("LimitCondition") EXCEPT !.limit = limit, !.offset = offset]

\* TRUE when OrderByCondition.__init__ returns, FALSE when it raises SpannerError
OrderByInitOk(orderings) ==
  \A k \in 1..Len(orderings) : orderings[k].order_type.isOrderType

OrderByCondition(orderings) ==
  [Fields("OrderByCondition") EXCEPT !.orderings = orderings]

ComparisonCondition(cls, column, value) ==
  [Fields(cls) EXCEPT !.column = column, !.value = value]

OrderingClasses == {"GreaterThanCondition", "GreaterThanOrEqualCondition",
                    "LessThanCondition", "LessThanOrEqualCondition"}
ListClasses == {"InListCondition", "NotInListCondition"}
NullableClasses == {"EqualityCondition", "InequalityCondition"}
ComparisonClasses == OrderingClasses \cup ListClasses \cup NullableClasses

operator(cls) ==
  CASE cls = "GreaterThanCondition" -> ">"
    [] cls = "GreaterThanOrEqualCondition" -> ">="
    [] cls = "LessThanCondition" -> "<"
    [] cls = "LessThanOrEqualCondition" -> "<="
    [] cls = "InListCondition" -> "IN"
    [] cls = "NotInListCondition" -> "NOT IN"
    [] cls = "EqualityCondition" -> "="
    [] cls = "InequalityCondition" -> "!="

nullable_operator(cls) ==
  CASE cls = "EqualityCondition" -> "IS"
    [] cls = "InequalityCondition" -> "IS NOT"

\* variant of is_null: `not self.value` instead of `self.value is None`
is_null_Falsy(c) == ~Truthy(c.value)

is_null(c) == c.value = PyNone

_segment(cls) ==
  CASE cls = "ColumnsEqualCondition" -> "WHERE"
    [] cls = "IncludesCondition" -> "JOIN"
    [] cls = "LimitCondition" -> "LIMIT"
    [] cls = "OrderByCondition" -> "ORDER_BY"
    [] cls \in ComparisonClasses -> "WHERE"

(* ------------------ relations of the models (read only) ---------------- *)

\* self.relation = None
NoRelation == [destination |-> NoModel, conditions |-> <<>>]

relations(m) ==
  IF m = "A"
  THEN [r \in {"rel_b"} |->
          [destination |-> "B",
           conditions |-> <<ColumnsEqualCondition("key", "B", "key")>>]]
  ELSE [r \in {"rel_a"} |->
          [destination |-> "A",
           conditions |-> <<ColumnsEqualCondition("key", "A", "key")>>]]

(* ------------------------- emission (_sql etc.) ------------------------ *)

\* What a call gives back: status "ok" and its value, or the exception raised
Returned(status, v) == [status |-> status, out |-> v]

RECURSIVE JoinOrders(_, _)
\* ', '.join(orders), each order '{alias}.{column} {order_type}'
JoinOrders(orderings, alias) ==
  IF orderings = <<>> THEN <<>>
  ELSE LET o == orderings[1]
           first == <<alias, ".", o.column, " ", o.order_type.name>>
       IN IF Len(orderings) = 1 THEN first
          ELSE first \o <<", ">> \o JoinOrders(Tail(orderings), alias)

ComparisonSql(c, m) ==
  <<column_prefix(m), ".", c.column, " ", operator(c.cls), " ", "@", c.column>>

_sql(c, m) ==
  CASE c.cls = "ColumnsEqualCondition" ->
         Returned("ok", <<table(m), ".", c.column, " = ",
                          table(c.destination_model), ".", c.destination_column>>)
    [] c.cls = "IncludesCondition" -> Returned("ok", <<>>)
    [] c.cls = "LimitCondition" ->
         IF Truthy(c.offset)
         THEN Returned("ok", <<"LIMIT ", "@", "limit", " OFFSET ", "@", "offset">>)
         ELSE Returned("ok", <<"LIMIT ", "@", "limit">>)
    [] c.cls = "OrderByCondition" ->
         IF \A k \in 1..Len(c.orderings) : c.orderings[k].order_type.isOrderType
         THEN Returned("ok", <<"ORDER BY ">> \o JoinOrders(c.orderings, column_prefix(m)))
         ELSE Returned("AttributeError", <<>>)
    [] c.cls \in OrderingClasses -> Returned("ok", ComparisonSql(c, m))
    [] c.cls \in ListClasses ->
         Returned("ok", <<column_prefix(m), ".", c.column, " ", operator(c.cls), " ",
                          "UNNEST(", "@", c.column, ")">>)
    [] c.cls \in NullableClasses ->
         IF is_null(c)
         THEN Returned("ok", <<column_prefix(m), ".", c.column, " ",
                               nullable_operator(c.cls), " ", "NULL">>)
         ELSE Returned("ok", ComparisonSql(c, m))

\* variant of LimitParams: the offset key is always present
LimitParams_AlwaysOffset(c) == ("limit" :> c.limit) @@ ("offset" :> c.offset)

\* LimitCondition._params
LimitParams(c) ==
  IF Truthy(c.offset)
  THEN ("limit" :> c.limit) @@ ("offset" :> c.offset)
  ELSE "limit" :> c.limit

_params(c) ==
  CASE c.cls \in {"ColumnsEqualCondition", "IncludesCondition", "OrderByCondition"} ->
         Returned("ok", EmptyDict)
    [] c.cls = "LimitCondition" -> Returned("ok", LimitParams(c))
    [] c.cls \in OrderingClasses \cup ListClasses ->
         Returned("ok", c.column :> c.value)
    [] c.cls \in NullableClasses ->
         IF is_null(c) THEN Returned("ok", EmptyDict)
         ELSE Returned("ok", c.column :> c.value)

\* self.model.schema()[self.column] raises KeyError for a column not in the schema
ComparisonTypes(c, m) ==
  IF c.column \in DOMAIN schema(m)
  THEN Returned("ok", c.column :> grpc_type(schema(m)[c.column]))
  ELSE Returned("KeyError", EmptyTypes)

_types(c, m) ==
  CASE c.cls \in {"ColumnsEqualCondition", "IncludesCondition", "OrderByCondition"} ->
         Returned("ok", EmptyTypes)
    [] c.cls = "LimitCondition" ->
         IF Truthy(c.offset)
         THEN Returned("ok", ("limit" :> Int64Type) @@ ("offset" :> Int64Type))
         ELSE Returned("ok", "limit" :> Int64Type)
    [] c.cls \in OrderingClasses -> ComparisonTypes(c, m)
    [] c.cls \in ListClasses ->
         IF c.column \in DOMAIN schema(m)
         THEN Returned("ok", c.column :> grpc_list_type(schema(m)[c.column]))
         ELSE Returned("KeyError", EmptyTypes)
    [] c.cls \in NullableClasses ->
         IF is_null(c) THEN Returned("ok", EmptyTypes) ELSE ComparisonTypes(c, m)

(* ------------------------------ validation ----------------------------- *)

\* variant of ColumnsEqualValidate: nullability is not compared
ColumnsEqualValidate_TypeOnly(c, m) ==
  /\ c.column \in DOMAIN schema(m)
  /\ c.destination_column \in DOMAIN schema(c.destination_model)
  /\ schema(m)[c.column].field_type
       = schema(c.destination_model)[c.destination_column].field_type

ColumnsEqualValidate(c, m) ==
  /\ c.column \in DOMAIN schema(m)
  /\ c.destination_column \in DOMAIN schema(c.destination_model)
  /\ LET origin == schema(m)[c.column]
         dest == schema(c.destination_model)[c.destination_column]
     IN origin.field_type = dest.field_type /\ origin.nullable = dest.nullable

OrderByValidate(c, m) ==
  \A k \in 1..Len(c.orderings) : c.orderings[k].column \in DOMAIN schema(m)

\* variant of ComparisonValidate: the column is not looked up in the schema
ComparisonValidate_NoSchema(c, m) == c.value # PyNone

ComparisonValidate(c, m) ==
  /\ c.column \in DOMAIN schema(m)
  /\ c.value # PyNone
  /\ FieldValidate(schema(m)[c.column], c.value)

ListComparisonValidate(c, m) ==
  /\ IsList(c.value)
  /\ c.column \in DOMAIN schema(m)
  /\ \A k \in 1..Len(c.value.items) : FieldValidate(schema(m)[c.column], c.value.items[k])

NullableComparisonValidate(c, m) ==
  /\ c.column \in DOMAIN schema(m)
  /\ FieldValidate(schema(m)[c.column], c.value)

RECURSIVE _validate(_, _)

\* variant of IncludesValidate: the extras are validated against the origin model
IncludesValidate_Origin(c, m) ==
  /\ c.name \in DOMAIN relations(m)
  /\ \A k \in 1..Len(c.conditions) : _validate(c.conditions[k], m)

\* IncludesCondition._validate
IncludesValidate(c, m) ==
  /\ c.name \in DOMAIN relations(m)
  /\ LET other_model == relations(m)[c.name].destination
     IN \A k \in 1..Len(c.conditions) : _validate(c.conditions[k], other_model)

\* TRUE when condition._validate(model) returns, FALSE when it raises
_validate(c, m) ==
  CASE c.cls = "ColumnsEqualCondition" -> ColumnsEqualValidate(c, m)
    [] c.cls = "IncludesCondition" -> IncludesValidate(c, m)
    [] c.cls = "LimitCondition" -> TRUE
    [] c.cls = "OrderByCondition" -> OrderByValidate(c, m)
    [] c.cls \in OrderingClasses -> ComparisonValidate(c, m)
    [] c.cls \in ListClasses -> ListComparisonValidate(c, m)
    [] c.cls \in NullableClasses -> NullableComparisonValidate(c, m)

(* --------------------------- public methods ---------------------------- *)

\* variant of params: the bound check is missing
params_NoCheck(c, m) == _params(c)

\* `if not self.model: raise error.SpannerError(...)`, then the variant's hook
sql(c, m) == IF m = NoModel THEN Returned("SpannerError", <<>>) ELSE _sql(c, m)
params(c, m) == IF m = NoModel THEN Returned("SpannerError", EmptyDict) ELSE _params(c)
types(c, m) == IF m = NoModel THEN Returned("SpannerError", EmptyTypes) ELSE _types(c, m)

\* variant of BoundModel: the model is stored before it is validated
BoundModel_StoreFirst(c, slot, m) == m

\* self.model after bind(m) on a condition whose slot held `slot`
BoundModel(c, slot, m) == IF _validate(c, m) THEN m ELSE slot
\* how bind(m) ends: it returns, or the validation's assertion propagates
BindStatus(c, m) == IF _validate(c, m) THEN "ok" ELSE "AssertionError"

\* IncludesCondition.conditions(): relation.conditions() + self._conditions
IncludesConditions(rel, extras) ==
  [k \in 1..Len(rel.conditions) |->
     [from |-> "relation", index |-> k, cond |-> rel.conditions[k]]]
  \o [k \in 1..Len(extras) |-> [from |-> "extras", index |-> k, cond |-> extras[k]]]

(* -------------------------------- state -------------------------------- *)

\* what the last call gave back
NoResult ==
  [op |-> "none", obj |-> 0, arg |-> NoModel, status |-> "none", sql |-> <<>>,
   params |-> EmptyDict, types |-> EmptyTypes, segment |-> "none",
   conditions |-> <<>>, destination |-> NoModel, name |-> "", args |-> <<>>]

\* object 0 is the condition itself, object k >= 1 its k-th extra condition
Objects == 0..Len(cond.conditions)
ObjCond(o) == IF o = 0 THEN cond ELSE cond.conditions[o]
ObjModel(o) == IF o = 0 THEN model ELSE extraModel[o]

Init ==
  /\ cond = NoCond
  /\ model = NoModel
  /\ relation = NoRelation
  /\ extraModel = <<>>
  /\ result = NoResult

\* Condition.__init__ (and the subclass constructors) have returned; the call
\* is recorded with the limit and offset it was given
Construct(op, c) ==
  /\ cond' = c
  /\ model' = NoModel
  /\ relation' = NoRelation
  /\ extraModel' = [k \in 1..Len(c.conditions) |-> NoModel]
  /\ result' = [NoResult EXCEPT !.op = op, !.status = "ok",
                               !.args = IF c.cls = "LimitCondition"
                                        THEN <<c.limit, c.offset>> ELSE <<>>]

\* a constructor raised SpannerError: no instance exists
ConstructFails(op, args) ==
  /\ UNCHANGED <<cond, model, relation, extraModel>>
  /\ result' = [NoResult EXCEPT !.op = op, !.status = "SpannerError", !.args = args]

(* ------------------------------ factories ------------------------------ *)

OrderColumns == {"key", "value", "missing"}
Orderings ==
  UNION {[1..n -> [column : OrderColumns, order_type : OrderTypes]] : n \in 0..MaxOrderings}

\* conditions that are handed to includes() as extra conditions
ExtraConds ==
  {ComparisonCondition("EqualityCondition", "only_a", PyInt(1)),
   ComparisonCondition("EqualityCondition", "b_value", PyNone),
   ComparisonCondition("GreaterThanCondition", "value", PyInt(1))}
ExtraLists == UNION {[1..n -> ExtraConds] : n \in 0..MaxExtras}

columns_equal(origin_column, dest_model, dest_column) ==
  /\ cond = NoCond
  /\ Construct("columns_equal", ColumnsEqualCondition(origin_column, dest_model, dest_column))

equal_to(column, value) ==
  /\ cond = NoCond
  /\ Construct("equal_to", ComparisonCondition("EqualityCondition", column, value))

greater_than(column, value) ==
  /\ cond = NoCond
  /\ Construct("greater_than", ComparisonCondition("GreaterThanCondition", column, value))

greater_than_or_equal_to(column, value) ==
  /\ cond = NoCond
  /\ Construct("greater_than_or_equal_to",
               ComparisonCondition("GreaterThanOrEqualCondition", column, value))

includes(rel, conds) ==
  /\ cond = NoCond
  /\ Construct("includes", IncludesCondition(rel, conds))

in_list(column, value) ==
  /\ cond = NoCond
  /\ Construct("in_list", ComparisonCondition("InListCondition", column, value))

less_than(column, value) ==
  /\ cond = NoCond
  /\ Construct("less_than", ComparisonCondition("LessThanCondition", column, value))

less_than_or_equal_to(column, value) ==
  /\ cond = NoCond
  /\ Construct("less_than_or_equal_to",
               ComparisonCondition("LessThanOrEqualCondition", column, value))

limit(value, offset) ==
  /\ cond = NoCond
  /\ IF LimitInitOk(value, offset)
     THEN Construct("limit", LimitCondition(value, offset))
     ELSE ConstructFails("limit", <<value, offset>>)

not_equal_to(column, value) ==
  /\ cond = NoCond
  /\ Construct("not_equal_to", ComparisonCondition("InequalityCondition", column, value))

not_greater_than(column, value) ==
  /\ cond = NoCond
  /\ Construct("not_greater_than",
               ComparisonCondition("LessThanOrEqualCondition", column, value))

not_in_list(column, value) ==
  /\ cond = NoCond
  /\ Construct("not_in_list", ComparisonCondition("NotInListCondition", column, value))

not_less_than(column, value) ==
  /\ cond = NoCond
  /\ Construct("not_less_than",
               ComparisonCondition("GreaterThanOrEqualCondition", column, value))

order_by(orderings) ==
  /\ cond = NoCond
  /\ IF OrderByInitOk(orderings)
     THEN Construct("order_by", OrderByCondition(orderings))
     ELSE ConstructFails("order_by", <<>>)

(* ------------------------- calls on an instance ------------------------ *)

Call(op, o) == [NoResult EXCEPT !.op = op, !.obj = o]

\* Condition.bind(model) on object o (any class but IncludesCondition)
bind(o, m) ==
  /\ cond # NoCond
  /\ o \in Objects
  /\ ObjCond(o).cls # "IncludesCondition"
  /\ IF o = 0
     THEN model' = BoundModel(cond, model, m) /\ UNCHANGED extraModel
     ELSE /\ extraModel' = [extraModel EXCEPT ![o] = BoundModel(ObjCond(o), extraModel[o], m)]
          /\ UNCHANGED model
  /\ result' = [Call("bind", o) EXCEPT !.arg = m, !.status = BindStatus(ObjCond(o), m)]
  /\ UNCHANGED <<cond, relation>>

\* variant of IncludesBind: the extra conditions are bound to the destination
IncludesBind_BindsExtras(m) ==
  /\ cond.cls = "IncludesCondition"
  /\ model' = BoundModel(cond, model, m)
  /\ relation' = IF BindStatus(cond, m) = "ok" THEN relations(model')[cond.name]
                 ELSE relation
  /\ extraModel' = IF BindStatus(cond, m) = "ok"
                   THEN [k \in 1..Len(extraModel) |-> relation'.destination]
                   ELSE extraModel
  /\ result' = [Call("bind", 0) EXCEPT !.arg = m, !.status = BindStatus(cond, m)]
  /\ UNCHANGED cond

\* IncludesCondition.bind(model): super().bind(model), then the relation lookup
IncludesBind(m) ==
  /\ cond.cls = "IncludesCondition"
  /\ model' = BoundModel(cond, model, m)
  /\ relation' = IF BindStatus(cond, m) = "ok" THEN relations(model')[cond.name]
                 ELSE relation
  /\ result' = [Call("bind", 0) EXCEPT !.arg = m, !.status = BindStatus(cond, m)]
  /\ UNCHANGED <<cond, extraModel>>

CallSql(o) ==
  /\ cond # NoCond
  /\ o \in Objects
  /\ LET r == sql(ObjCond(o), ObjModel(o))
     IN result' = [Call("sql", o) EXCEPT !.status = r.status, !.sql = r.out]
  /\ UNCHANGED <<cond, model, relation, extraModel>>

CallParams(o) ==
  /\ cond # NoCond
  /\ o \in Objects
  /\ LET r == params(ObjCond(o), ObjModel(o))
     IN result' = [Call("params", o) EXCEPT !.status = r.status, !.params = r.out]
  /\ UNCHANGED <<cond, model, relation, extraModel>>

CallTypes(o) ==
  /\ cond # NoCond
  /\ o \in Objects
  /\ LET r == types(ObjCond(o), ObjModel(o))
     IN result' = [Call("types", o) EXCEPT !.status = r.status, !.types = r.out]
  /\ UNCHANGED <<cond, model, relation, extraModel>>

\* segment(): the class's fixed clause, no binding needed
segment(o) ==
  /\ cond # NoCond
  /\ o \in Objects
  /\ result' = [Call("segment", o) EXCEPT !.status = "ok",
                                          !.segment = _segment(ObjCond(o).cls)]
  /\ UNCHANGED <<cond, model, relation, extraModel>>

\* IncludesCondition.conditions()
conditions ==
  /\ cond.cls = "IncludesCondition"
  /\ result' = IF relation = NoRelation
               THEN [Call("conditions", 0) EXCEPT !.status = "SpannerError"]
               ELSE [Call("conditions", 0) EXCEPT
                       !.status = "ok",
                       !.conditions = IncludesConditions(relation, cond.conditions)]
  /\ UNCHANGED <<cond, model, relation, extraModel>>

\* IncludesCondition.destination()
destination ==
  /\ cond.cls = "IncludesCondition"
  /\ result' = IF relation = NoRelation
               THEN [Call("destination", 0) EXCEPT !.status = "SpannerError"]
               ELSE [Call("destination", 0) EXCEPT
                       !.status = "ok", !.destination = relation.destination]
  /\ UNCHANGED <<cond, model, relation, extraModel>>

\* IncludesCondition.relation_name()
relation_name ==
  /\ cond.cls = "IncludesCondition"
  /\ result' = [Call("relation_name", 0) EXCEPT !.status = "ok", !.name = cond.name]
  /\ UNCHANGED <<cond, model, relation, extraModel>>

Next ==
  \/ \E c \in Columns, dm \in Models, dc \in Columns : columns_equal(c, dm, dc)
  \/ \E c \in Columns, v \in Values : equal_to(c, v)
  \/ \E c \in Columns, v \in Values : greater_than(c, v)
  \/ \E c \in Columns, v \in Values : greater_than_or_equal_to(c, v)
  \/ \E r \in RelationNames, cs \in ExtraLists : includes(r, cs)
  \/ \E c \in Columns, v \in Values : in_list(c, v)
  \/ \E c \in Columns, v \in Values : less_than(c, v)
  \/ \E c \in Columns, v \in Values : less_than_or_equal_to(c, v)
  \/ \E v \in Values, off \in Values : limit(v, off)
  \/ \E c \in Columns, v \in Values : not_equal_to(c, v)
  \/ \E c \in Columns, v \in Values : not_greater_than(c, v)
  \/ \E c \in Columns, v \in Values : not_in_list(c, v)
  \/ \E c \in Columns, v \in Values : not_less_than(c, v)
  \/ \E os \in Orderings : order_by(os)
  \/ \E o \in 0..MaxExtras, m \in Models : bind(o, m)
  \/ \E m \in Models : IncludesBind(m)
  \/ \E o \in 0..MaxExtras : CallSql(o)
  \/ \E o \in 0..MaxExtras : CallParams(o)
  \/ \E o \in 0..MaxExtras : CallTypes(o)
  \/ \E o \in 0..MaxExtras : segment(o)
  \/ conditions
  \/ destination
  \/ relation_name

Spec == Init /\ [][Next]_vars

(* ------------------------------ properties ----------------------------- *)

\* the names that follow an @ in a SQL fragment
Placeholders(text) == {text[k + 1] : k \in {j \in 1..(Len(text) - 1) : text[j] = "@"}}

\* the slot of object o after the step
ObjModelNext(o) == IF o = 0 THEN model' ELSE extraModel'[o]

Emitters == {"sql", "params", "types"}
Segments == {"WHERE", "ORDER_BY", "LIMIT", "JOIN"}

\* the slot of an object leaves None only through a bind that returned
SlotSetOnlyByBind ==
  \A o \in Objects :
    (cond # NoCond /\ ObjModel(o) = NoModel /\ ObjModelNext(o) # NoModel)
      => /\ result'.op = "bind" /\ result'.obj = o /\ result'.status = "ok"
         /\ ObjModelNext(o) = result'.arg

\* C1: while no bind has succeeded on an instance (its slot is still None, and
\* the slot is only ever set by a bind that returned), sql(), params() and
\* types() raise SpannerError and give nothing back; segment() returns the
\* class's clause whatever the binding.
C1_UnboundUseFails ==
  [][/\ SlotSetOnlyByBind
     /\ (result'.op \in Emitters /\ ObjModel(result'.obj) = NoModel)
          => /\ result'.status = "SpannerError"
             /\ result'.sql = <<>>
             /\ result'.params = EmptyDict
             /\ result'.types = EmptyTypes
     /\ result'.op = "segment"
          => /\ result'.status = "ok"
             /\ result'.segment \in Segments
             /\ result'.segment = _segment(ObjCond(result'.obj).cls)]_vars

C1_Witness ==
  /\ result.op = "types" /\ result.obj = 0 /\ result.status = "SpannerError"
  /\ model = NoModel /\ cond.cls = "LimitCondition"

\* C2: for every bound condition, the @placeholders of sql() are exactly the
\* keys of params() and exactly the keys of types().
C2_PlaceholdersMatchKeys ==
  \A o \in Objects :
    (cond # NoCond /\ ObjModel(o) # NoModel)
      => LET c == ObjCond(o)
             m == ObjModel(o)
         IN /\ sql(c, m).status = "ok"
            /\ params(c, m).status = "ok"
            /\ types(c, m).status = "ok"
            /\ Placeholders(sql(c, m).out) = DOMAIN params(c, m).out
            /\ Placeholders(sql(c, m).out) = DOMAIN types(c, m).out

C2_Witness ==
  /\ cond.cls = "LimitCondition" /\ model # NoModel
  /\ cond.offset = PyInt(0)
  /\ result.op = "sql" /\ result.status = "ok"
  /\ Placeholders(result.sql) = {"limit"}

\* C3 as stated: a bind whose validation fails leaves the condition unbound.
C3_FailedBindLeavesUnbound ==
  [][(result'.op = "bind" /\ result'.status # "ok")
       => ObjModelNext(result'.obj) = NoModel]_vars

\* C3 as amended: bind(model) runs the validation of the condition's class
\* against that model; when it succeeds the model is stored in the slot; when
\* it fails bind raises and the slot keeps the value it had, so a condition
\* that was unbound stays unbound and its sql(), params() and types() still
\* raise the unbound-use error.
C3_FailedBindKeepsSlot ==
  [][result'.op = "bind"
       => LET o == result'.obj
              c == ObjCond(o)
              m == result'.arg
          IN /\ (result'.status = "ok") <=> _validate(c, m)
             /\ result'.status = "ok" => ObjModelNext(o) = m
             /\ result'.status # "ok"
                  => /\ ObjModelNext(o) = ObjModel(o)
                     /\ ObjModel(o) = NoModel
                          => /\ sql(c, ObjModelNext(o)).status = "SpannerError"
                             /\ params(c, ObjModelNext(o)).status = "SpannerError"
                             /\ types(c, ObjModelNext(o)).status = "SpannerError"]_vars

C3_Witness ==
  /\ result.op = "bind" /\ result.status = "AssertionError"
  /\ ObjModel(result.obj) # NoModel
  /\ ObjModel(result.obj) # result.arg

\* C4: a bound equal_to / not_equal_to on column c emits '<alias>.c IS NULL' /
\* '<alias>.c IS NOT NULL' with empty params and types when its value is None,
\* and '<alias>.c = @c' / '<alias>.c != @c' with params {c: value} and types
\* {c: scalar type of the field} otherwise.
C4_NullAwareEmission ==
  \A o \in Objects :
    (cond # NoCond /\ ObjCond(o).cls \in NullableClasses /\ ObjModel(o) # NoModel)
      => LET c == ObjCond(o)
             m == ObjModel(o)
             alias == column_prefix(m)
             eq == c.cls = "EqualityCondition"
         IN IF c.value = PyNone
            THEN /\ sql(c, m) = Returned("ok", <<alias, ".", c.column, " ",
                                                 IF eq THEN "IS" ELSE "IS NOT", " ", "NULL">>)
                 /\ params(c, m) = Returned("ok", EmptyDict)
                 /\ types(c, m) = Returned("ok", EmptyTypes)
            ELSE /\ sql(c, m) = Returned("ok", <<alias, ".", c.column, " ",
                                                 IF eq THEN "=" ELSE "!=", " ", "@", c.column>>)
                 /\ params(c, m) = Returned("ok", c.column :> c.value)
                 /\ types(c, m).status = "ok"
                 /\ DOMAIN types(c, m).out = {c.column}
                 /\ types(c, m).out[c.column] = grpc_type(schema(m)[c.column])

C4_Witness ==
  /\ cond.cls = "InequalityCondition" /\ cond.value = PyNone
  /\ cond.column = "value" /\ model = "A"
  /\ result.op = "sql" /\ result.status = "ok"
  /\ result.sql = <<"table_a", ".", "value", " ", "IS NOT", " ", "NULL">>

C6_LimitConstruction ==
  result'.op = "limit"
    => /\ (result'.status = "ok")
            <=> (result'.args[1].t = "int" /\ result'.args[2].t = "int")
       /\ result'.status = "ok"
            => (cond'.cls = "LimitCondition" /\ cond'.limit = result'.args[1]
                  /\ cond'.offset = result'.args[2])
       /\ result'.status # "ok" => (result'.status = "SpannerError" /\ cond' = NoCond)

C6_LimitEmission ==
  (cond.cls = "LimitCondition" /\ model # NoModel)
    => IF cond.offset.i # 0
       THEN /\ sql(cond, model)
                 = Returned("ok", <<"LIMIT ", "@", "limit", " OFFSET ", "@", "offset">>)
            /\ params(cond, model)
                 = Returned("ok", [k \in {"limit", "offset"} |->
                                     IF k = "limit" THEN cond.limit ELSE cond.offset])
            /\ types(cond, model).status = "ok"
            /\ DOMAIN types(cond, model).out = {"limit", "offset"}
       ELSE /\ sql(cond, model) = Returned("ok", <<"LIMIT ", "@", "limit">>)
            /\ params(cond, model) = Returned("ok", [k \in {"limit"} |-> cond.limit])
            /\ types(cond, model).status = "ok"
            /\ DOMAIN types(cond, model).out = {"limit"}

C6_Limit == [][C6_LimitConstruction]_vars /\ []C6_LimitEmission

C6_Witness ==
  /\ cond.cls = "LimitCondition" /\ model # NoModel
  /\ cond.offset = PyInt(0) /\ cond.limit = PyInt(-1)
  /\ result.op = "params" /\ result.status = "ok"
  /\ DOMAIN result.params = {"limit"}

\* C7: bind of includes(rel, extras) returns only if rel is a relation of the
\* model and every extra validates against the relation's destination model;
\* an extra comparison on a column the destination schema lacks makes it fail,
\* whatever the origin schema holds; after a bind that returned, conditions()
\* is the relation's conditions followed by the extras, in order.
C7_IncludesBindStep ==
  (result'.op = "bind" /\ result'.obj = 0 /\ cond.cls = "IncludesCondition")
    => LET m == result'.arg
       IN /\ result'.status = "ok"
               => /\ cond.name \in DOMAIN relations(m)
                  /\ \A k \in 1..Len(cond.conditions) :
                       _validate(cond.conditions[k], relations(m)[cond.name].destination)
                  /\ relation' = relations(m)[cond.name]
          /\ (\E k \in 1..Len(cond.conditions) :
                /\ cond.conditions[k].cls \in ComparisonClasses
                /\ cond.name \in DOMAIN relations(m)
                /\ cond.conditions[k].column
                     \notin DOMAIN schema(relations(m)[cond.name].destination))
               => result'.status # "ok"

C7_ConditionsStep ==
  (result'.op = "conditions" /\ model # NoModel)
    => LET own == relations(model)[cond.name].conditions
           got == result'.conditions
       IN /\ result'.status = "ok"
          /\ Len(got) = Len(own) + Len(cond.conditions)
          /\ \A k \in 1..Len(own) : got[k].from = "relation" /\ got[k].cond = own[k]
          /\ \A k \in 1..Len(cond.conditions) :
               /\ got[Len(own) + k].from = "extras"
               /\ got[Len(own) + k].index = k
               /\ got[Len(own) + k].cond = cond.conditions[k]

C7_IncludesValidatesAgainstDestination ==
  [][C7_IncludesBindStep /\ C7_ConditionsStep]_vars

C7_Witness ==
  /\ cond.cls = "IncludesCondition" /\ model = "A"
  /\ Len(cond.conditions) = 2 /\ cond.conditions[1] # cond.conditions[2]
  /\ cond.conditions[1].column = "b_value"
  /\ result.op = "conditions" /\ result.status = "ok"
  /\ Len(result.conditions) = 3

\* C8: bind of columns_equal(origin_column, dest_model, dest_column) returns
\* exactly when both columns exist in their schemas with the same logical type
\* and the same nullability; bound, its SQL is
\* '<table>.<origin_column> = <dest_table>.<dest_column>' on the full table
\* names and its params and types are empty.
C8_BindStep ==
  (result'.op = "bind" /\ ObjCond(result'.obj).cls = "ColumnsEqualCondition")
    => LET c == ObjCond(result'.obj)
           m == result'.arg
       IN (result'.status = "ok")
            <=> /\ c.column \in DOMAIN schema(m)
                /\ c.destination_column \in DOMAIN schema(c.destination_model)
                /\ schema(m)[c.column].field_type
                     = schema(c.destination_model)[c.destination_column].field_type
                /\ schema(m)[c.column].nullable
                     = schema(c.destination_model)[c.destination_column].nullable

C8_Emission ==
  (cond.cls = "ColumnsEqualCondition" /\ model # NoModel)
    => /\ sql(cond, model)
            = Returned("ok", <<table(model), ".", cond.column, " = ",
                               table(cond.destination_model), ".", cond.destination_column>>)
       /\ params(cond, model) = Returned("ok", EmptyDict)
       /\ types(cond, model) = Returned("ok", EmptyTypes)

C8_ColumnsEqual == [][C8_BindStep]_vars /\ []C8_Emission

C8_Witness ==
  /\ cond.cls = "ColumnsEqualCondition" /\ model = "A"
  /\ cond.column = "value" /\ cond.destination_column = "b_value"
  /\ result.op = "sql" /\ result.status = "ok"
  /\ result.sql = <<"db.table_a", ".", "value", " = ", "db.table_b", ".", "b_value">>

\* C9: once a condition is constructed and a bind on it has returned, every
\* sql(), params() and types() call on it returns a value: no error first
\* shows at emission.
C9_NoErrorAtEmission ==
  [][/\ SlotSetOnlyByBind
     /\ (result'.op \in Emitters /\ ObjModel(result'.obj) # NoModel)
          => result'.status = "ok"]_vars

C9_Witness ==
  /\ cond.cls = "NotInListCondition" /\ model # NoModel
  /\ cond.value.items # <<>>
  /\ result.op = "types" /\ result.obj = 0 /\ result.status = "ok"
  /\ result.types[cond.column].code = "ARRAY"

\* C10: bind on an includes condition leaves the slot of every extra condition
\* as it was, so an extra that nobody bound still raises the unbound-use error
\* from sql(), params() and types() after the includes condition is bound.
C10_IncludesBindLeavesExtras ==
  [][/\ (result'.op = "bind" /\ result'.obj = 0 /\ cond.cls = "IncludesCondition")
          => extraModel' = extraModel
     /\ (result'.op \in Emitters /\ result'.obj # 0 /\ model # NoModel
           /\ extraModel[result'.obj] = NoModel)
          => result'.status = "SpannerError"]_vars

C10_Witness ==
  /\ cond.cls = "IncludesCondition" /\ model # NoModel
  /\ relation # NoRelation
  /\ result.op = "sql" /\ result.obj = 1 /\ result.status = "SpannerError"
  /\ extraModel[1] = NoModel

====
